---- MODULE Spec2Model ----
(***************************************************************************)
(* Sparse matrix multiplication core of xESMF (src/xesmf/smm.py):          *)
(* read_weights, apply_weights, add_nans_to_weights and                    *)
(* _combine_weight_multipoly, modelled as operators over explicit values   *)
(* and driven by a caller that holds a source, an operator and a field.    *)
(***************************************************************************)
EXTENDS Integers, Sequences, FiniteSets, TLC

VARIABLES
    last,       \* the function called last, "none" before the first call
    args,       \* the other arguments of that call (sizes, shapes, indexes)
    source,     \* the object passed to read_weights, as it is after the call
    weights,    \* the operator read_weights returned, as it is after the last call
    derived,    \* the operator a later call returned from `weights`
    indata,     \* the dense field passed to apply_weights, as it is after the call
    outcome,    \* what the last call returned or raised
    given       \* history: source, weights, derived and indata as they were when
                \* handed over or returned

vars == <<last, args, source, weights, derived, indata, outcome, given>>

----------------------------------------------------------------------------
(* Bounds of the model. *)

\* the longest row/col/S table of a weight source
MaxNnz == 2
\* the largest size of a leading (batch) dimension of a dense field
MaxBatch == 2
\* the largest group number of a column
MaxGroup == 2
\* the largest n_in and n_out passed to read_weights with an arbitrary source
MaxSize == 2

----------------------------------------------------------------------------
(* Floating point values: a number or NaN. *)

Num(x) == [nan |-> FALSE, v |-> x]

NaN == [nan |-> TRUE, v |-> 0]

IsNaN(a) == a.nan

Add(a, b) == IF a.nan \/ b.nan THEN NaN ELSE Num(a.v + b.v)

\* faulty variant: a product with zero is zero, whatever the other factor
Mul_zero_wins(a, b) ==
    IF (~a.nan /\ a.v = 0) \/ (~b.nan /\ b.v = 0) THEN Num(0)
    ELSE IF a.nan \/ b.nan THEN [nan |-> TRUE, v |-> 0] ELSE Num(a.v * b.v)

Mul(a, b) == IF a.nan \/ b.nan THEN NaN ELSE Num(a.v * b.v)

Zero == Num(0)

\* the product of the sizes of a shape
RECURSIVE Prod(_)
Prod(shape) ==
    IF shape = <<>> THEN 1 ELSE Head(shape) * Prod(Tail(shape))

----------------------------------------------------------------------------
(* Values passed between the caller and the functions. *)

NoValue == [kind |-> "none"]

\* a call's outcome: the exception raised and the function raising it, or the value returned
Raised(exc, where) == [status |-> exc, where |-> where, value |-> NoValue]

Returned(v) == [status |-> "ok", where |-> "", value |-> v]

\* a dense numpy array: its shape and its elements in C order
Field(shape, flat) == [kind |-> "ndarray", shape |-> shape, flat |-> flat]

\* xr.Dataset with the variables `names`; a variable that is absent holds no table
Dataset(names, row, col, S) ==
    [kind |-> "Dataset", variables |-> names,
     row |-> IF "row" \in names THEN row ELSE <<>>,
     col |-> IF "col" \in names THEN col ELSE <<>>,
     S |-> IF "S" \in names THEN S ELSE <<>>]

\* a str or Path: whether the file exists, and the Dataset xr.open_dataset reads from it
PathTo(exists, ds) == [kind |-> "Path", exists |-> exists, file |-> ds]

\* the dictionary of ESMPy.api.Regrid.get_weights_dict
Dict(names, row, col, S) ==
    [kind |-> "dict", keys |-> names,
     row_dst |-> IF "row_dst" \in names THEN row ELSE <<>>,
     col_src |-> IF "col_src" \in names THEN col ELSE <<>>,
     weights |-> IF "weights" \in names THEN S ELSE <<>>]

\* scipy.sparse.coo_matrix: 0-based parallel tables, duplicates allowed
coo_matrix(shape, row, col, data) ==
    [kind |-> "coo_matrix", shape |-> shape, row |-> row, col |-> col, data |-> data]

\* sparse.COO: a shape and the stored entries <<row, col, value>>, one per coordinate
SparseCOO(shape, entries) == [kind |-> "COO", shape |-> shape, entries |-> entries]

\* xr.DataArray backed by a sparse.COO, dims ('out_dim', 'in_dim')
DataArray(coo) == [kind |-> "DataArray", shape |-> coo.shape, entries |-> coo.entries]

----------------------------------------------------------------------------
(* sparse.COO(coords, data, shape): the coordinates are sorted by their     *)
(* linear location (np.ravel_multi_index, which rejects a coordinate        *)
(* outside the shape) and the data of equal coordinates are summed.         *)

RECURSIVE SumAt(_, _, _, _, _)
SumAt(row, col, S, r, c) ==
    IF row = <<>> THEN Zero
    ELSE IF Head(row) = r /\ Head(col) = c
         THEN Add(Head(S), SumAt(Tail(row), Tail(col), Tail(S), r, c))
         ELSE SumAt(Tail(row), Tail(col), Tail(S), r, c)

InShape(row, col, shape) ==
    \A k \in 1..Len(row) :
        /\ row[k] \in 0..(shape[1] - 1)
        /\ col[k] \in 0..(shape[2] - 1)

\* faulty variant: equal coordinates are not merged
sum_duplicates_kept(row, col, S) ==
    {<<row[k], col[k], S[k]>> : k \in 1..Len(row)}

sum_duplicates(row, col, S) ==
    {<<row[k], col[k], SumAt(row, col, S, row[k], col[k])>> : k \in 1..Len(row)}

COO(row, col, S, shape) ==
    IF ~InShape(row, col, shape)
    THEN Raised("ValueError", "sps.COO")
    ELSE Returned(SparseCOO(shape, sum_duplicates(row, col, S)))

\* sps.COO.from_scipy_sparse: the matrix's own shape, duplicates summed
from_scipy_sparse(m) == SparseCOO(m.shape, sum_duplicates(m.row, m.col, m.data))

Minus1(seq) == [k \in 1..Len(seq) |-> seq[k] - 1]

----------------------------------------------------------------------------
(* read_weights and _parse_coords_and_values. *)

\* faulty variant: the file is opened without asking whether it exists
parse_coords_and_values_unchecked_path(indata_, nin, nout) ==
    IF indata_.kind \in {"Path", "Dataset"}
    THEN LET ds_w == IF indata_.kind = "Path" THEN indata_.file ELSE indata_
         IN IF ~({"col", "row", "S"} \subseteq ds_w.variables)
            THEN Raised("ValueError", "_parse_coords_and_values")
            ELSE COO(Minus1(ds_w.row), Minus1(ds_w.col), ds_w.S, <<nout, nin>>)
    ELSE IF ~({"col_src", "row_dst", "weights"} \subseteq indata_.keys)
         THEN Raised("ValueError", "_parse_coords_and_values")
         ELSE COO(Minus1(indata_.row_dst), Minus1(indata_.col_src),
                  indata_.weights, <<nout, nin>>)

parse_coords_and_values(indata_, nin, nout) ==
    IF indata_.kind \in {"Path", "Dataset"}
    THEN IF indata_.kind = "Path" /\ ~indata_.exists
         THEN Raised("IOError", "_parse_coords_and_values")
         ELSE LET ds_w == IF indata_.kind = "Path" THEN indata_.file ELSE indata_
              IN IF ~({"col", "row", "S"} \subseteq ds_w.variables)
                 THEN Raised("ValueError", "_parse_coords_and_values")
                 ELSE COO(Minus1(ds_w.row), Minus1(ds_w.col), ds_w.S, <<nout, nin>>)
    ELSE IF ~({"col_src", "row_dst", "weights"} \subseteq indata_.keys)
         THEN Raised("ValueError", "_parse_coords_and_values")
         ELSE COO(Minus1(indata_.row_dst), Minus1(indata_.col_src),
                  indata_.weights, <<nout, nin>>)

\* faulty variant: an operator is wrapped again under the declared shape
read_weights_rewrapped(w, nin, nout) ==
    IF w.kind \in {"Path", "Dataset", "dict"}
    THEN LET parsed == parse_coords_and_values(w, nin, nout)
         IN IF parsed.status = "ok"
            THEN Returned(DataArray(parsed.value))
            ELSE parsed
    ELSE IF w.kind = "coo_matrix"
    THEN Returned(DataArray(from_scipy_sparse(w)))
    ELSE Returned(DataArray(SparseCOO(<<nout, nin>>, w.entries)))

read_weights(w, nin, nout) ==
    IF w.kind \in {"Path", "Dataset", "dict"}
    THEN LET parsed == parse_coords_and_values(w, nin, nout)
         IN IF parsed.status = "ok"
            THEN Returned(DataArray(parsed.value))
            ELSE parsed
    ELSE IF w.kind = "coo_matrix"
    THEN Returned(DataArray(from_scipy_sparse(w)))
    ELSE IF w.kind = "DataArray"
    THEN Returned(w)
    ELSE Returned(DataArray(w))

----------------------------------------------------------------------------
(* apply_weights. *)

\* the stored entry of `w` at <<r, c>>, or zero: what a sparse dot product reads
Stored(w, r, c) ==
    IF \E e \in w.entries : e[1] = r /\ e[2] = c
    THEN (CHOOSE e \in w.entries : e[1] = r /\ e[2] = c)[3]
    ELSE Zero

\* faulty variant: every batch row reads the first row of the flattened input
RECURSIVE RowDot_first_batch(_, _, _, _, _, _)
RowDot_first_batch(w, r, flat, b, n, c) ==
    IF c >= n THEN Zero
    ELSE IF \E e \in w.entries : e[1] = r /\ e[2] = c
         THEN Add(Mul(Stored(w, r, c), flat[c + 1]),
                  RowDot_first_batch(w, r, flat, b, n, c + 1))
         ELSE RowDot_first_batch(w, r, flat, b, n, c + 1)

\* row r of weights.dot(indata_flat.T): the stored entries of the row times
\* the cells c .. n-1 of batch row b of the flattened input
RECURSIVE RowDot(_, _, _, _, _, _)
RowDot(w, r, flat, b, n, c) ==
    IF c >= n THEN Zero
    ELSE IF \E e \in w.entries : e[1] = r /\ e[2] = c
         THEN Add(Mul(Stored(w, r, c), flat[b * n + c + 1]),
                  RowDot(w, r, flat, b, n, c + 1))
         ELSE RowDot(w, r, flat, b, n, c + 1)

\* faulty variant: the output shape is not compared with the operator
apply_weights_unchecked_out(w, data, shapein, shapeout) ==
    LET nd == Len(data.shape)
        shape_horiz == IF nd >= 2 THEN SubSeq(data.shape, nd - 1, nd) ELSE data.shape
        extra_shape == IF nd >= 2 THEN SubSeq(data.shape, 1, nd - 2) ELSE <<>>
    IN IF shape_horiz # shapein
       THEN Raised("AssertionError", "apply_weights")
       ELSE IF shapein[1] * shapein[2] # w.shape[2]
       THEN Raised("AssertionError", "apply_weights")
       ELSE LET n == shapein[1] * shapein[2]
                m == shapeout[1] * shapeout[2]
                batch == Prod(extra_shape)
                outdata_flat == [i \in 1..(batch * m) |->
                                    RowDot(w, (i - 1) % m, data.flat, (i - 1) \div m, n, 0)]
            IN Returned(Field(extra_shape \o shapeout, outdata_flat))

\* (the C_CONTIGUOUS warning changes no value and is left out)
apply_weights(w, data, shapein, shapeout) ==
    LET nd == Len(data.shape)
        shape_horiz == IF nd >= 2 THEN SubSeq(data.shape, nd - 1, nd) ELSE data.shape
        extra_shape == IF nd >= 2 THEN SubSeq(data.shape, 1, nd - 2) ELSE <<>>
    IN IF shape_horiz # shapein
       THEN Raised("AssertionError", "apply_weights")
       ELSE IF shapein[1] * shapein[2] # w.shape[2]
       THEN Raised("AssertionError", "apply_weights")
       ELSE IF shapeout[1] * shapeout[2] # w.shape[1]
       THEN Raised("AssertionError", "apply_weights")
       ELSE LET n == shapein[1] * shapein[2]
                m == shapeout[1] * shapeout[2]
                batch == Prod(extra_shape)
                outdata_flat == [i \in 1..(batch * m) |->
                                    RowDot(w, (i - 1) % m, data.flat, (i - 1) \div m, n, 0)]
            IN Returned(Field(extra_shape \o shapeout, outdata_flat))

----------------------------------------------------------------------------
(* add_nans_to_weights. *)

\* the columns of the stored entries of row r, ascending, from column c on
RECURSIVE RowCols(_, _, _)
RowCols(w, r, c) ==
    IF c >= w.shape[2] THEN <<>>
    ELSE IF \E e \in w.entries : e[1] = r /\ e[2] = c
         THEN <<c>> \o RowCols(w, r, c + 1)
         ELSE RowCols(w, r, c + 1)

\* weights.data.to_scipy_sparse().tolil(): per row, the columns and the values
tolil(w) ==
    [shape |-> w.shape,
     rows |-> [k \in 1..w.shape[1] |-> RowCols(w, k - 1, 0)],
     data |-> [k \in 1..w.shape[1] |->
                  LET cols == RowCols(w, k - 1, 0)
                  IN [j \in 1..Len(cols) |-> Stored(w, k - 1, cols[j])]]]

\* faulty variant: a row whose weights are all zero counts as empty
fill_empty_rows_without_weight(M) ==
    [shape |-> M.shape,
     rows |-> [k \in 1..Len(M.rows) |->
                  IF \A j \in 1..Len(M.data[k]) : M.data[k][j] = Zero
                  THEN <<0>> ELSE M.rows[k]],
     data |-> [k \in 1..Len(M.data) |->
                  IF \A j \in 1..Len(M.data[k]) : M.data[k][j] = Zero
                  THEN <<NaN>> ELSE M.data[k]]]

\* the loop over krow: an empty row gets one NaN at element 0
fill_empty_rows(M) ==
    [shape |-> M.shape,
     rows |-> [k \in 1..Len(M.rows) |-> IF M.rows[k] = <<>> THEN <<0>> ELSE M.rows[k]],
     data |-> [k \in 1..Len(M.data) |-> IF M.data[k] = <<>> THEN <<NaN>> ELSE M.data[k]]]

\* sps.COO.from_scipy_sparse(M) for the lil matrix M
from_lil(M) ==
    SparseCOO(M.shape,
              UNION {{<<k - 1, M.rows[k][j], M.data[k][j]>> : j \in 1..Len(M.rows[k])} :
                        k \in 1..Len(M.rows)})

add_nans_to_weights(w) ==
    LET M == fill_empty_rows(tolil(w))
    IN Returned(DataArray(from_lil(M)))

----------------------------------------------------------------------------
(* _combine_weight_multipoly. *)

RECURSIVE SeqMax(_)
SeqMax(seq) ==
    IF Len(seq) = 1 THEN seq[1]
    ELSE LET m == SeqMax(Tail(seq)) IN IF Head(seq) > m THEN Head(seq) ELSE m

\* faulty variant: the first column of a group stands for the group
RECURSIVE ColumnSum_first(_, _, _, _, _)
ColumnSum_first(w, idx, i, r, c) ==
    IF c >= w.shape[2] THEN Zero
    ELSE IF idx[c + 1] = i
         THEN Stored(w, r, c)
         ELSE ColumnSum_first(w, idx, i, r, c + 1)

\* weights.isel(in_dim=(indexes == i)).sum('in_dim') at row r: the stored entries
\* of the selected columns c .. n-1, added up
RECURSIVE ColumnSum(_, _, _, _, _)
ColumnSum(w, idx, i, r, c) ==
    IF c >= w.shape[2] THEN Zero
    ELSE IF idx[c + 1] = i
         THEN Add(Stored(w, r, c), ColumnSum(w, idx, i, r, c + 1))
         ELSE ColumnSum(w, idx, i, r, c + 1)

\* the summed column i: the rows whose sum is not the fill value 0
column(w, idx, i) ==
    {<<r, i, ColumnSum(w, idx, i, r, 0)>> : r \in 0..(w.shape[1] - 1)}
        \ {<<r, i, Zero>> : r \in 0..(w.shape[1] - 1)}

combine_weight_multipoly(w, idx) ==
    IF Len(idx) = 0
    THEN Raised("ValueError", "indexes.max")
    ELSE IF Len(idx) # w.shape[2]
    THEN Raised("IndexError", "weights.isel")
    ELSE LET ncol == SeqMax(idx) + 1
             columns == [i \in 0..(ncol - 1) |-> column(w, idx, i)]
         IN Returned(DataArray(SparseCOO(<<w.shape[1], ncol>>,
                                         UNION {columns[i] : i \in 0..(ncol - 1)})))

----------------------------------------------------------------------------
(* What a call leaves of the objects it was given.  No function of the     *)
(* module assigns into an argument: read_weights and                       *)
(* _parse_coords_and_values build new arrays (`values - 1`, np.stack),     *)
(* apply_weights reads reshaped and transposed views, add_nans_to_weights  *)
(* edits the list-of-lists copy M and rebinds its local name `weights`,    *)
(* _combine_weight_multipoly selects and sums into new arrays.             *)

source_after_read_weights(s) == s

weights_after_apply_weights(w, data) == w

indata_after_apply_weights(w, data) == data

\* faulty variant: the rows are filled in the matrix that was passed
weights_after_add_nans_in_place(w) == add_nans_to_weights(w).value

weights_after_add_nans_to_weights(w) == w

weights_after_combine_weight_multipoly(w, idx) == w

----------------------------------------------------------------------------
(* The inputs the caller draws from. *)

\* weights stored in a source
SourceVals == {0, 1}

\* sizes n_in, n_out passed to read_weights with an arbitrary source
ReadSizes == 1..MaxSize

\* sizes n_in, n_out passed when an operator is read a second time
AgainSizes == 1..(MaxSize + 1)

\* the tables of n parallel entries: 1-based rows, columns and their weights
RowTables(n, rows) == [1..n -> rows]

ColTables(n, cols) == [1..n -> cols]

STables(n) == [1..n -> {Num(v) : v \in SourceVals}]

\* a table as ESMF writes it: inside the grid, ascending, no cell twice
IsEsmfTable(row, col, nin) ==
    \A k \in 1..(Len(row) - 1) :
        (row[k] - 1) * nin + col[k] < (row[k + 1] - 1) * nin + col[k + 1]

FileNames == {"row", "col", "S"}

DictNames == {"row_dst", "col_src", "weights"}

\* the source of one kind holding a table under the names `names`
SourceOf(kind, names, row, col, S) ==
    CASE kind = "Dataset" -> Dataset(names, row, col, S)
      [] kind = "Path" -> PathTo(TRUE, Dataset(names, row, col, S))
      [] kind = "no file" -> PathTo(FALSE, Dataset(names, row, col, S))
      [] kind = "dict" -> Dict(names, row, col, S)
      [] kind = "coo_matrix" -> coo_matrix(names, row, col, S)
      [] kind = "COO" -> from_scipy_sparse(coo_matrix(names, row, col, S))
      [] kind = "DataArray" -> DataArray(from_scipy_sparse(coo_matrix(names, row, col, S)))

\* the grids  <<ny, nx>>  of a given number of cells
Grids(sizes) ==
    {g \in (1..(MaxSize + 1)) \X (1..(MaxSize + 1)) : g[1] * g[2] \in sizes}

\* leading dimensions of a dense field
ExtraShapes == {<<>>, <<MaxBatch, 1>>} \cup {<<b>> : b \in 2..MaxBatch}

\* dense fields of a shape: the ramp 1, 2, 3, ... and twice each unit field
FieldsOf(shape) ==
    LET size == Prod(shape)
    IN {Field(shape, [i \in 1..size |-> Num(i)])}
           \cup {Field(shape, [i \in 1..size |-> IF i = p THEN Num(2) ELSE Zero]) :
                    p \in 1..size}

\* the ramps alone
Ramps(sizes) ==
    {Field(e \o g, [i \in 1..Prod(e \o g) |-> Num(i)]) : e \in ExtraShapes, g \in Grids(sizes)}

\* dense fields of one to four dimensions over the grids of `sizes`
Fields(sizes) ==
    UNION {FieldsOf(e \o g) : e \in ExtraShapes, g \in Grids(sizes)}
        \cup UNION {FieldsOf(<<n>>) : n \in sizes}

----------------------------------------------------------------------------
(* The caller. *)

Init ==
    /\ last = "none"
    /\ args = [fn |-> "none"]
    /\ source = NoValue
    /\ weights = NoValue
    /\ derived = NoValue
    /\ indata = NoValue
    /\ outcome = Returned(NoValue)
    /\ given = [source |-> NoValue, weights |-> NoValue, derived |-> NoValue,
                indata |-> NoValue]

\* weights = read_weights(s, nin, nout): the first call of a session
ReadWeights(s, nin, nout) ==
    /\ last = "none"
    /\ LET r == read_weights(s, nin, nout)
       IN /\ outcome' = r
          /\ weights' = r.value
          /\ given' = [given EXCEPT !.source = s, !.weights = r.value]
    /\ source' = source_after_read_weights(s)
    /\ last' = "read_weights"
    /\ args' = [fn |-> "read_weights", n_in |-> nin, n_out |-> nout]
    /\ UNCHANGED <<derived, indata>>

\* derived = read_weights(weights, nin, nout): an operator is read again
ReadAgain(nin, nout) ==
    /\ weights # NoValue
    /\ last = "read_weights"
    /\ outcome' = read_weights(weights, nin, nout)
    /\ derived' = outcome'.value
    /\ weights' = source_after_read_weights(weights)
    /\ last' = "read_weights again"
    /\ args' = [fn |-> "read_weights", n_in |-> nin, n_out |-> nout]
    /\ given' = [given EXCEPT !.derived = outcome'.value]
    /\ UNCHANGED <<source, indata>>

\* derived = add_nans_to_weights(weights)
AddNans ==
    /\ weights # NoValue
    /\ derived = NoValue
    /\ outcome' = add_nans_to_weights(weights)
    /\ derived' = outcome'.value
    /\ weights' = weights_after_add_nans_to_weights(weights)
    /\ last' = "add_nans_to_weights"
    /\ args' = [fn |-> "add_nans_to_weights"]
    /\ given' = [given EXCEPT !.derived = outcome'.value]
    /\ UNCHANGED <<source, indata>>

\* derived = _combine_weight_multipoly(weights, idx)
Combine(idx) ==
    /\ weights # NoValue
    /\ derived = NoValue
    /\ outcome' = combine_weight_multipoly(weights, idx)
    /\ derived' = outcome'.value
    /\ weights' = weights_after_combine_weight_multipoly(weights, idx)
    /\ last' = "_combine_weight_multipoly"
    /\ args' = [fn |-> "_combine_weight_multipoly", indexes |-> idx]
    /\ given' = [given EXCEPT !.derived = outcome'.value]
    /\ UNCHANGED <<source, indata>>

\* outdata = apply_weights(weights or derived, data, shapein, shapeout)
Apply(which, data, shapein, shapeout) ==
    /\ weights # NoValue
    /\ which = "derived" => derived # NoValue
    /\ LET w == IF which = "derived" THEN derived ELSE weights
       IN /\ outcome' = apply_weights(w, data, shapein, shapeout)
          /\ indata' = indata_after_apply_weights(w, data)
          /\ IF which = "derived"
             THEN /\ derived' = weights_after_apply_weights(w, data)
                  /\ weights' = weights
             ELSE /\ weights' = weights_after_apply_weights(w, data)
                  /\ derived' = derived
    /\ given' = [given EXCEPT !.indata = data]
    /\ last' = "apply_weights"
    /\ args' = [fn |-> "apply_weights", which |-> which,
                shape_in |-> shapein, shape_out |-> shapeout]
    /\ UNCHANGED source

----------------------------------------------------------------------------
(* Weight ingestion from every kind of source. *)

\* any table whose 1-based indices reach one cell beyond the grid on either side,
\* under the right names
IngestFull ==
    /\ last = "none"
    /\ \E nout \in ReadSizes, nin \in ReadSizes, n \in 0..MaxNnz :
         \E row \in RowTables(n, 0..(nout + 1)), col \in ColTables(n, 0..(nin + 1)) :
           \E S \in STables(n), kind \in {"Dataset", "Path", "dict"} :
             ReadWeights(SourceOf(kind, IF kind = "dict" THEN DictNames ELSE FileNames,
                                  row, col, S), nin, nout)

\* fields missing or added, and paths to no file
IngestSchema ==
    /\ last = "none"
    /\ \E nout \in ReadSizes, nin \in ReadSizes, n \in 0..1 :
         \E row \in RowTables(n, 1..nout), col \in ColTables(n, 1..nin), S \in STables(n) :
           \/ \E kind \in {"Dataset", "Path", "no file"} :
                \E names \in SUBSET (FileNames \cup {"frac_b"}) :
                  ReadWeights(SourceOf(kind, names, row, col, S), nin, nout)
           \/ \E names \in SUBSET (DictNames \cup {"frac_b"}) :
                ReadWeights(SourceOf("dict", names, row, col, S), nin, nout)

\* raw matrices and operators of any shape: a scipy coo_matrix holds 0-based
\* entries inside its own shape
IngestRaw ==
    /\ last = "none"
    /\ \E nout \in ReadSizes, nin \in ReadSizes, n \in 0..MaxNnz :
         \E m \in ReadSizes \X ReadSizes :
           \E row \in RowTables(n, 0..(m[1] - 1)), col \in ColTables(n, 0..(m[2] - 1)) :
             \E S \in STables(n), kind \in {"coo_matrix", "COO", "DataArray"} :
               ReadWeights(SourceOf(kind, m, row, col, S), nin, nout)

IngestAgain ==
    /\ last = "read_weights"
    /\   \E nout \in AgainSizes, nin \in AgainSizes : ReadAgain(nin, nout)

NextIngest == IngestFull \/ IngestSchema \/ IngestRaw \/ IngestAgain

SpecIngest == Init /\ [][NextIngest]_vars

----------------------------------------------------------------------------
(* Sessions over well-formed weights. *)

\* weights = read_weights(<dictionary from ESMF>, nin, nout)
EsmfRead(outs, ins) ==
    /\ last = "none"
    /\ \E nout \in outs, nin \in ins, n \in 0..MaxNnz :
         \E row \in RowTables(n, 1..nout), col \in ColTables(n, 1..nin), S \in STables(n) :
           /\ IsEsmfTable(row, col, nin)
           /\ ReadWeights(SourceOf("dict", DictNames, row, col, S), nin, nout)

\* apply_weights with any field and any two shapes
ApplyAny(which, sizes_in, sizes_out) ==
    \E data \in Fields(sizes_in), shapein \in Grids(sizes_in), shapeout \in Grids(sizes_out) :
        Apply(which, data, shapein, shapeout)

\* apply_weights with given fields and the shapes of as many cells as the operator has
ApplyFitting(which, w, fields) ==
    \E data \in fields :
        \E shapein \in Grids({w.shape[2]}), shapeout \in Grids({w.shape[1]}) :
            Apply(which, data, shapein, shapeout)

(* Sparse apply right after ingestion. *)

ApplyRead == EsmfRead(ReadSizes, ReadSizes)

ApplyCall ==
    /\ last = "read_weights"
    /\ ApplyAny("weights", ReadSizes, ReadSizes)

NextApply == ApplyRead \/ ApplyCall

SpecApply == Init /\ [][NextApply]_vars

(* Missing-data propagation, then sparse apply of the result. *)

NansRead == EsmfRead(AgainSizes, ReadSizes)

NansAdd ==
    /\ last = "read_weights"
    /\ AddNans

NansApply ==
    /\ last = "add_nans_to_weights"
    /\ ApplyFitting("derived", derived, Fields({derived.shape[2]}))

NextNans == NansRead \/ NansAdd \/ NansApply

SpecNans == Init /\ [][NextNans]_vars

(* Multi-geometry combination. *)

CombineRead == EsmfRead(ReadSizes, AgainSizes)

CombineCall ==
    /\ last = "read_weights"
    /\ \E n \in 0..(weights.shape[2] + 1) :
         \E idx \in [1..n -> 0..MaxGroup] : Combine(idx)

NextCombine == CombineRead \/ CombineCall

SpecCombine == Init /\ [][NextCombine]_vars

(* Any sequence of calls on one operator. *)

\* sizes n_in, n_out of a session
SessionSizes == {1, 2}

SessionRead == EsmfRead(SessionSizes, SessionSizes)

SessionAgain ==
    /\ last = "read_weights"
    /\ derived = NoValue
    /\ \E nout \in SessionSizes, nin \in SessionSizes : ReadAgain(nin, nout)

SessionAddNans ==
    /\ last # "none"
    /\ AddNans

SessionCombine ==
    /\ last # "none"
    /\ weights # NoValue
    /\ \E idx \in [1..weights.shape[2] -> 0..MaxGroup] : Combine(idx)

SessionApply ==
    /\ last \notin {"none", "apply_weights"}
    /\ \/ ApplyFitting("weights", weights, Ramps({weights.shape[2]}))
       \/ derived # NoValue /\ ApplyFitting("derived", derived, Ramps({derived.shape[2]}))

Next == SessionRead \/ SessionAgain \/ SessionAddNans \/ SessionCombine \/ SessionApply

Spec == Init /\ [][Next]_vars

----------------------------------------------------------------------------
(* Vocabulary of the properties. *)

\* the cell <<r, c>> of an operator read as a dense matrix
Dense(w, r, c) ==
    LET es == {e \in w.entries : e[1] = r /\ e[2] = c}
    IN IF es = {} THEN Zero ELSE (CHOOSE e \in es : TRUE)[3]

RowEntries(w, r) == {e \in w.entries : e[1] = r}

IsTableSource(s) == s.kind \in {"Path", "Dataset", "dict"}

NoFile(s) == s.kind = "Path" /\ ~s.exists

LacksFields(s) ==
    \/ s.kind = "Dataset" /\ ~(FileNames \subseteq s.variables)
    \/ s.kind = "Path" /\ s.exists /\ ~(FileNames \subseteq s.file.variables)
    \/ s.kind = "dict" /\ ~(DictNames \subseteq s.keys)

\* the three parallel fields of a table source
RowField(s) ==
    IF s.kind = "dict" THEN s.row_dst ELSE IF s.kind = "Path" THEN s.file.row ELSE s.row

ColField(s) ==
    IF s.kind = "dict" THEN s.col_src ELSE IF s.kind = "Path" THEN s.file.col ELSE s.col

ValueField(s) ==
    IF s.kind = "dict" THEN s.weights ELSE IF s.kind = "Path" THEN s.file.S ELSE s.S

\* every 1-based triple of the source lies inside the declared grid
TriplesInside(s, nout, nin) ==
    \A k \in 1..Len(RowField(s)) :
        RowField(s)[k] \in 1..nout /\ ColField(s)[k] \in 1..nin

\* the sum of the values of the triples numbered in K
RECURSIVE Total(_, _)
Total(S, K) ==
    IF K = {} THEN Zero
    ELSE LET k == CHOOSE x \in K : \A y \in K : x <= y
         IN Add(S[k], Total(S, K \ {k}))

\* the read that opens a session has just returned or raised
FirstRead == last = "read_weights"

CompleteTable == FirstRead /\ IsTableSource(given.source) /\ ~NoFile(given.source)
                     /\ ~LacksFields(given.source)

----------------------------------------------------------------------------
(* C1, as stated: reading a source whose fields hold 1-based triples of   *)
(* the grid returns an operator of shape (n_out, n_in) whose stored        *)
(* entries are exactly the triples (row_k - 1, col_k - 1, value_k).         *)
C1_EntriesAreTheTriples ==
    (CompleteTable /\ TriplesInside(given.source, args.n_out, args.n_in)) =>
        /\ outcome.status = "ok"
        /\ weights.shape = <<args.n_out, args.n_in>>
        /\ weights.entries =
              {<<RowField(given.source)[k] - 1, ColField(given.source)[k] - 1,
                 ValueField(given.source)[k]>> : k \in 1..Len(RowField(given.source))}

(* C1, amended: when every triple lies inside the declared grid            *)
(* (1 <= row_k <= n_out, 1 <= col_k <= n_in), read_weights returns an      *)
(* operator of shape exactly (n_out, n_in), whatever the largest index     *)
(* present, with one stored entry per distinct (row_k - 1, col_k - 1),     *)
(* holding the sum of the value_k of the triples at that cell.             *)
C1_EntriesAreTheSummedTriples ==
    (CompleteTable /\ TriplesInside(given.source, args.n_out, args.n_in)) =>
        LET row == RowField(given.source)
            col == ColField(given.source)
            S == ValueField(given.source)
        IN /\ outcome.status = "ok"
           /\ outcome.value = weights
           /\ weights.kind = "DataArray"
           /\ weights.shape = <<args.n_out, args.n_in>>
           /\ weights.entries =
                 {<<row[k] - 1, col[k] - 1,
                    Total(S, {j \in 1..Len(row) : row[j] = row[k] /\ col[j] = col[k]})>> :
                      k \in 1..Len(row)}

\* a file with the cell (1, 1) twice, read into a 2 x 2 operator
C1_Witness ==
    /\ FirstRead
    /\ given.source.kind = "Path"
    /\ given.source.exists
    /\ FileNames \subseteq given.source.file.variables
    /\ given.source.file.row = <<1, 1>>
    /\ given.source.file.col = <<1, 1>>
    /\ given.source.file.S = <<Num(1), Num(1)>>
    /\ args.n_in = 2 /\ args.n_out = 2
    /\ weights.shape = <<2, 2>>
    /\ weights.entries = {<<0, 0, Num(2)>>}

(* C2: after a successful read_weights(source, n_in, n_out), whatever the  *)
(* kind of source, every stored entry (row, col, value) has                *)
(* 0 <= row < n_out and 0 <= col < n_in.                                    *)
C2_EntriesInsideDeclaredShape ==
    (FirstRead /\ outcome.status = "ok") =>
        \A e \in weights.entries :
            e[1] \in 0..(args.n_out - 1) /\ e[2] \in 0..(args.n_in - 1)

(* C8, as stated: read_weights raises IOError for a path to no file and    *)
(* ValueError for a dataset or mapping lacking a field, returns no         *)
(* operator then, and fails in no other case: indices outside the grid     *)
(* and shapes that disagree do not make it fail.                           *)
C8_OnlyTwoFailures ==
    FirstRead =>
        /\ NoFile(given.source) => outcome.status = "IOError"
        /\ LacksFields(given.source) => outcome.status = "ValueError"
        /\ outcome.status # "ok" => weights = NoValue /\ outcome.value = NoValue
        /\ outcome.status # "ok" => NoFile(given.source) \/ LacksFields(given.source)

(* C8, amended: read_weights raises IOError exactly for a path to no file  *)
(* and the ValueError of its own field check exactly for a dataset, an     *)
(* existing file or a mapping that lacks a field; no operator is returned  *)
(* then.  These are the only checks of read_weights itself: a raw matrix   *)
(* or an operator of another shape is accepted, but a path, dataset or     *)
(* mapping with all its fields and an index outside the declared grid      *)
(* fails in the sparse constructor, and only then.                         *)
C8_FailuresOfReadWeights ==
    FirstRead =>
        /\ outcome.status \in {"ok", "IOError", "ValueError"}
        /\ outcome.status = "IOError" <=> NoFile(given.source)
        /\ (outcome.status = "ValueError" /\ outcome.where = "_parse_coords_and_values")
              <=> LacksFields(given.source)
        /\ (outcome.status = "ValueError" /\ outcome.where = "sps.COO")
              <=> (CompleteTable /\ ~TriplesInside(given.source, args.n_out, args.n_in))
        /\ outcome.status # "ok" => weights = NoValue /\ outcome.value = NoValue
        /\ outcome.status = "ok" => weights.kind = "DataArray"

\* a path to no file
C8_Witness ==
    /\ FirstRead
    /\ NoFile(given.source)
    /\ outcome.status = "IOError"
    /\ weights = NoValue

----------------------------------------------------------------------------
(* Vocabulary of the properties of apply_weights. *)

\* the index tuples of an array of a shape, 0-based
RECURSIVE IndexTuples(_)
IndexTuples(shape) ==
    IF shape = <<>> THEN {<<>>}
    ELSE {<<i>> \o t : i \in 0..(Head(shape) - 1), t \in IndexTuples(Tail(shape))}

\* the element of a C-ordered array at an index tuple
RECURSIVE Offset(_, _)
Offset(shape, idx) ==
    IF idx = <<>> THEN 0
    ELSE Head(idx) * Prod(Tail(shape)) + Offset(Tail(shape), Tail(idx))

At(field, idx) == field.flat[Offset(field.shape, idx) + 1]

\* the leading dimensions of a field
Leading(field) == SubSeq(field.shape, 1, Len(field.shape) - 2)

\* sum over the source cells c .. n-1 of operator[r, c] * data[e, c]
RECURSIVE WeightedSum(_, _, _, _, _, _)
WeightedSum(w, r, data, e, nx, c) ==
    IF c >= w.shape[2] THEN Zero
    ELSE Add(Mul(Dense(w, r, c), At(data, e \o <<c \div nx, c % nx>>)),
             WeightedSum(w, r, data, e, nx, c + 1))

Applied == last = "apply_weights"

\* the three preconditions of apply_weights for the operator w
TrailingIsShapeIn ==
    /\ Len(given.indata.shape) >= 2
    /\ given.indata.shape[Len(given.indata.shape) - 1] = args.shape_in[1]
    /\ given.indata.shape[Len(given.indata.shape)] = args.shape_in[2]

ShapeInIsNIn(w) == args.shape_in[1] * args.shape_in[2] = w.shape[2]

ShapeOutIsNOut(w) == args.shape_out[1] * args.shape_out[2] = w.shape[1]

(* C3: when the trailing two dimensions of the data differ from shape_in,  *)
(* or shape_in[0] * shape_in[1] from n_in, or shape_out[0] * shape_out[1]  *)
(* from n_out, apply_weights raises its shape error and returns no array.  *)
C3_ShapeMismatchRaises ==
    (Applied /\ ~(TrailingIsShapeIn /\ ShapeInIsNIn(weights) /\ ShapeOutIsNOut(weights))) =>
        /\ outcome.status = "AssertionError"
        /\ outcome.value = NoValue

\* only the output shape disagrees with the operator
C3_Witness ==
    /\ Applied
    /\ TrailingIsShapeIn
    /\ ShapeInIsNIn(weights)
    /\ ~ShapeOutIsNOut(weights)
    /\ weights.entries # {}
    /\ outcome.status = "AssertionError"
    /\ outcome.value = NoValue

(* C4: when the preconditions hold, apply_weights returns an array of      *)
(* shape (extra_dims..., shape_out[0], shape_out[1]) whose element at the    *)
(* leading index e and destination cell r (row-major) is the sum over the  *)
(* source cells c of operator[r, c] * data[e, c].                          *)
C4_ApplyIsTheMatrixProduct ==
    (Applied /\ TrailingIsShapeIn /\ ShapeInIsNIn(weights) /\ ShapeOutIsNOut(weights)) =>
        /\ outcome.status = "ok"
        /\ outcome.value.shape = Leading(given.indata) \o args.shape_out
        /\ Len(outcome.value.flat) = Prod(outcome.value.shape)
        /\ \A e \in IndexTuples(Leading(given.indata)) :
             \A r \in 0..(weights.shape[1] - 1) :
               At(outcome.value, e \o <<r \div args.shape_out[2], r % args.shape_out[2]>>)
                 = WeightedSum(weights, r, given.indata, e, args.shape_in[2], 0)

\* a 2 x 2 operator with two weights in one row, applied to two batch rows
C4_Witness ==
    /\ Applied
    /\ outcome.status = "ok"
    /\ weights.shape = <<2, 2>>
    /\ \E r \in 0..1 : Cardinality(RowEntries(weights, r)) = 2
    /\ given.indata.shape = <<2, 2, 1>>
    /\ given.indata.flat = <<Num(1), Num(2), Num(3), Num(4)>>
    /\ args.shape_out = <<1, 2>>
    /\ outcome.value.shape = <<2, 1, 2>>

----------------------------------------------------------------------------
(* C5: add_nans_to_weights returns an operator of the same shape in which  *)
(* a row without stored entries holds exactly the entry (r, 0, NaN) and    *)
(* every other row, also one whose only weight is 0, holds the entries it  *)
(* had.                                                                    *)
C5_EmptyRowsGetOneNaN ==
    last = "add_nans_to_weights" =>
        /\ outcome.status = "ok"
        /\ outcome.value = derived
        /\ derived.shape = given.weights.shape
        /\ \A e \in derived.entries : e[1] \in 0..(derived.shape[1] - 1)
        /\ \A r \in 0..(given.weights.shape[1] - 1) :
             IF RowEntries(given.weights, r) = {}
             THEN RowEntries(derived, r) = {<<r, 0, NaN>>}
             ELSE RowEntries(derived, r) = RowEntries(given.weights, r)

\* n_out = 3, n_in = 2: row 1 is empty, row 0 holds only a weight 0
C5_Witness ==
    /\ last = "add_nans_to_weights"
    /\ given.weights.shape = <<3, 2>>
    /\ RowEntries(given.weights, 0) = {<<0, 1, Zero>>}
    /\ RowEntries(given.weights, 1) = {}
    /\ RowEntries(given.weights, 2) # {}
    /\ RowEntries(derived, 1) = {<<1, 0, NaN>>}

(* C6: applying the operator returned by add_nans_to_weights gives NaN at  *)
(* exactly the positions whose destination row had no stored entry, and    *)
(* at every other position the finite value that applying the original     *)
(* operator gives.                                                         *)
C6_NaNExactlyAtEmptyRows ==
    (Applied /\ args.which = "derived") =>
        LET plain == apply_weights(given.weights, given.indata, args.shape_in, args.shape_out)
        IN /\ outcome.status = plain.status
           /\ outcome.status = "ok" =>
                /\ outcome.value.shape = plain.value.shape
                /\ Len(outcome.value.flat) = Len(plain.value.flat)
                /\ \A i \in 1..Len(outcome.value.flat) :
                     IF RowEntries(given.weights, (i - 1) % given.weights.shape[1]) = {}
                     THEN IsNaN(outcome.value.flat[i])
                     ELSE /\ ~IsNaN(outcome.value.flat[i])
                          /\ outcome.value.flat[i] = plain.value.flat[i]

\* row 1 of a 3 x 2 operator is empty; the field is zero at source cell 0
C6_Witness ==
    /\ Applied
    /\ args.which = "derived"
    /\ outcome.status = "ok"
    /\ given.weights.shape = <<3, 2>>
    /\ RowEntries(given.weights, 0) # {}
    /\ RowEntries(given.weights, 1) = {}
    /\ RowEntries(given.weights, 2) # {}
    /\ given.indata.flat = <<Zero, Num(2)>>
    /\ IsNaN(outcome.value.flat[2])
    /\ ~IsNaN(outcome.value.flat[1])
    /\ ~IsNaN(outcome.value.flat[3])

----------------------------------------------------------------------------
(* Vocabulary of the properties of _combine_weight_multipoly. *)

\* the largest group number
MaxOf(idx) == CHOOSE g \in {idx[k] : k \in 1..Len(idx)} : \A k \in 1..Len(idx) : idx[k] <= g

\* the sum over the columns numbered in C of operator[r, c]
RECURSIVE SumOfColumns(_, _, _)
SumOfColumns(w, r, C) ==
    IF C = {} THEN Zero
    ELSE LET c == CHOOSE x \in C : \A y \in C : x <= y
         IN Add(Dense(w, r, c), SumOfColumns(w, r, C \ {c}))

Combined == last = "_combine_weight_multipoly"

(* C7: for a group_index of length n_in, _combine_weight_multipoly returns *)
(* an operator with the same n_out rows and max(group_index) + 1 columns,  *)
(* column g being the sum over the rows of the original columns c with     *)
(* group_index[c] = g; a group without a member column is an all-zero      *)
(* column.                                                                 *)
C7_ColumnsAreGroupSums ==
    (Combined /\ Len(args.indexes) = given.weights.shape[2]) =>
        /\ outcome.status = "ok"
        /\ outcome.value = derived
        /\ derived.shape = <<given.weights.shape[1], MaxOf(args.indexes) + 1>>
        /\ \A e \in derived.entries :
             e[1] \in 0..(derived.shape[1] - 1) /\ e[2] \in 0..(derived.shape[2] - 1)
        /\ \A r \in 0..(derived.shape[1] - 1), g \in 0..(derived.shape[2] - 1) :
             Dense(derived, r, g) =
                SumOfColumns(given.weights, r,
                             {c \in 0..(given.weights.shape[2] - 1) : args.indexes[c + 1] = g})

\* group_index = [0, 0, 2]: columns 0 and 1 are added, group 1 has no member
C7_Witness ==
    /\ Combined
    /\ args.indexes = <<0, 0, 2>>
    /\ given.weights.shape[2] = 3
    /\ \E r \in 0..(given.weights.shape[1] - 1) :
         /\ Dense(given.weights, r, 0) = Num(1)
         /\ Dense(given.weights, r, 1) = Num(1)
         /\ Dense(derived, r, 0) = Num(2)
    /\ derived.shape[2] = 3
    /\ \A r \in 0..(derived.shape[1] - 1) : Dense(derived, r, 1) = Zero

----------------------------------------------------------------------------
====
